---------------------------- MODULE Spec2Model ----------------------------
(***************************************************************************)
(* Model of the finance ledger of the tagata-dental clinic application:   *)
(* the treatments collection, the aggregation pipelines of                 *)
(* utils_finance.py, the views of app.py that compute totals from the      *)
(* ledger, and the invoice sequence counter.                               *)
(*                                                                         *)
(* Stored values are modelled as BSON values [type, v]; text that the      *)
(* code compares or slices (dates, names) is a sequence of character       *)
(* codes, so that the store's lexical comparison is computed and not       *)
(* assumed to agree with the calendar.                                     *)
(***************************************************************************)
EXTENDS Integers, Sequences, FiniteSets, TLC

VARIABLES
    treatments,   \* db.treatments: sequence of documents, in insertion order
    patients,     \* db.patients: function from ObjectId number to the document
    appointments, \* db.appointments: sequence of documents, in insertion order
    counters,     \* db.counters document "invoice_no": Absent or [seq |-> n]
    invoices,     \* db.invoices: sequence of stored invoice snapshots
    pc,           \* per request handler: position inside invoice_pdf
    loc,          \* per request handler: its local variables
    issued,       \* history: numbers returned by next_invoice_number, in order
    resp          \* the response of the last completed request

vars == <<treatments, patients, appointments, counters, invoices, pc, loc, issued, resp>>

-----------------------------------------------------------------------------
(* Bounds of the model *)

MaxRecs == 2          \* documents in the ledger
NumHandlers == 3      \* concurrent invoice_pdf requests

(* Program constants *)

WindowDays == 30      \* timedelta(days=30) in finance_reports
TopLimit == 10        \* limit=10 passed by the finance views

-----------------------------------------------------------------------------
(* BSON values *)

Num(n) == [type |-> "double", v |-> n]
ObjectId(n) == [type |-> "objectId", v |-> n]
\* str(ObjectId(n)): the 24-hex text of an ObjectId
HexStr(n) == [type |-> "string", v |-> n]
\* a string that is no 24-hex text (a patient name, a placeholder)
NameStr == [type |-> "string", v |-> 0]
Null == [type |-> "null", v |-> 0]
\* an amount stored as a text that is no number (written by an import)
TextAmount == [type |-> "string", v |-> 0]

IsNumber(x) == x.type = "double"

\* {"$ifNull": [x, d]}
IfNull(x, d) == IF x.type = "null" THEN d ELSE x

\* what an accumulator {"$sum": x} adds for one document: non-numbers add 0
SumTerm(x) == IF IsNumber(x) THEN x.v ELSE 0

Max2(a, b) == IF a >= b THEN a ELSE b
Min2(a, b) == IF a <= b THEN a ELSE b

-----------------------------------------------------------------------------
(* Text: sequences of character codes *)

Dash == 45
Slash == 47
Space == 32
Digit(d) == 48 + d
IsDigit(c) == c >= 48 /\ c <= 57
Val(c) == c - 48

\* lexical comparison of two strings, as the store compares string fields
LexLess(a, b) ==
    \/ \E i \in 1..Min2(Len(a), Len(b)) :
          /\ a[i] < b[i]
          /\ \A j \in 1..(i - 1) : a[j] = b[j]
    \/ /\ Len(a) < Len(b)
       /\ \A j \in 1..Len(a) : a[j] = b[j]

LexLeq(a, b) == a = b \/ LexLess(a, b)

TwoDigits(n) == <<Digit(n \div 10), Digit(n % 10)>>
FourDigits(n) == <<Digit(n \div 1000), Digit((n \div 100) % 10),
                   Digit((n \div 10) % 10), Digit(n % 10)>>

\* strftime("%Y-%m-%d") of a calendar date <<y, m, d>>
FormatYmd(ymd) == FourDigits(ymd[1]) \o <<Dash>> \o TwoDigits(ymd[2])
                  \o <<Dash>> \o TwoDigits(ymd[3])
\* the same calendar date written month/day/year
FormatMdy(ymd) == TwoDigits(ymd[2]) \o <<Slash>> \o TwoDigits(ymd[3])
                  \o <<Slash>> \o FourDigits(ymd[1])

\* The calendar, December 2024 to March 2025, by day ordinal
\* (ordinal 1 is 2025-01-01).
MinOrdinal == 0 - 30
MaxOrdinal == 31 + 28 + 31
Ordinals == MinOrdinal..MaxOrdinal
DateOfOrdinal(n) ==
    IF n <= 0 THEN <<2024, 12, 31 + n>>
    ELSE IF n <= 31 THEN <<2025, 1, n>>
    ELSE IF n <= 59 THEN <<2025, 2, n - 31>>
    ELSE <<2025, 3, n - 59>>
IsDate(ymd) == \E n \in Ordinals : DateOfOrdinal(n) = ymd
OrdinalOfDate(ymd) == CHOOSE n \in Ordinals : DateOfOrdinal(n) = ymd

NoDate == <<>>
\* datetime.strptime(s, "%Y-%m-%d"): NoDate stands for ValueError
StrptimeYmd(s) ==
    IF /\ Len(s) = 10
       /\ s[5] = Dash /\ s[8] = Dash
       /\ \A i \in {1, 2, 3, 4, 6, 7, 9, 10} : IsDigit(s[i])
    THEN LET ymd == <<1000 * Val(s[1]) + 100 * Val(s[2]) + 10 * Val(s[3]) + Val(s[4]),
                      10 * Val(s[6]) + Val(s[7]),
                      10 * Val(s[9]) + Val(s[10])>>
         IN IF IsDate(ymd) THEN ymd ELSE NoDate
    ELSE NoDate
\* datetime.strptime(s, "%m/%d/%Y")
StrptimeMdy(s) ==
    IF /\ Len(s) = 10
       /\ s[3] = Slash /\ s[6] = Slash
       /\ \A i \in {1, 2, 4, 5, 7, 8, 9, 10} : IsDigit(s[i])
    THEN LET ymd == <<1000 * Val(s[7]) + 100 * Val(s[8]) + 10 * Val(s[9]) + Val(s[10]),
                      10 * Val(s[1]) + Val(s[2]),
                      10 * Val(s[4]) + Val(s[5])>>
         IN IF IsDate(ymd) THEN ymd ELSE NoDate
    ELSE NoDate

\* _parse_date: the calendar date a stored date string denotes; the
\* formats are tried in the order of the code
_parse_date(d) ==
    IF d = <<>> THEN NoDate
    ELSE IF StrptimeYmd(d) # NoDate THEN StrptimeYmd(d)
    ELSE StrptimeMdy(d)

\* datetime.today(), fixed at 2025-03-02
Today == DateOfOrdinal(31 + 28 + 2)
\* d - timedelta(days=k)
MinusDays(ymd, k) == DateOfOrdinal(OrdinalOfDate(ymd) - k)


-----------------------------------------------------------------------------
(* Documents of db.treatments and db.patients *)

\* is_deleted FALSE stands for a document whose flag is absent or false,
\* status "none" for a document without status: {"$ne": ...} treats both
\* as it treats any other value that differs from the excluded one.
Doc(id, pid, date, fee, paid, del, status) ==
    [_id |-> id, patient_id |-> pid, date |-> date, fee |-> fee, paid |-> paid,
     is_deleted |-> del, status |-> status]

PatientIds == {1, 2}
\* first_name / last_name of the patients: "A" "C" and "B" "D"
PatientDoc(n) == [first_name |-> <<64 + n>>, last_name |-> <<66 + n>>]
AllPatients == [n \in PatientIds |-> PatientDoc(n)]

RECURSIVE SumSeq(_)
SumSeq(s) == IF s = <<>> THEN 0 ELSE Head(s) + SumSeq(Tail(s))

\* the next ObjectId the driver generates for an inserted document
RECURSIVE MaxId(_)
MaxId(col) == IF col = <<>> THEN 0 ELSE Max2(Head(col)._id, MaxId(Tail(col)))
NewId(col) == MaxId(col) + 1

-----------------------------------------------------------------------------
(* utils_finance.py *)

\* faulty variant: the filter without the status condition
_match_all_time_no_status(t) == t.is_deleted # TRUE
\* the $match filter of _match_all_time, applied to one document
_match_all_time(t) == t.is_deleted # TRUE /\ t.status # "void"

\* faulty variant: the period filter without the status condition
_match_period_no_status(t, d_from, d_to) ==
    /\ t.is_deleted # TRUE
    /\ LexLeq(d_from, t.date)
    /\ LexLeq(t.date, d_to)
\* the $match filter of _match_period: the date bounds compare strings
_match_period(t, d_from, d_to) ==
    /\ t.is_deleted # TRUE
    /\ t.status # "void"
    /\ LexLeq(d_from, t.date)
    /\ LexLeq(t.date, d_to)

\* {"$sum": {"$ifNull": ["$fee", 0]}} and the same for paid, over a $group
GroupSumFee(docs) ==
    SumSeq([i \in 1..Len(docs) |-> SumTerm(IfNull(docs[i].fee, Num(0)))])
GroupSumPaid(docs) ==
    SumSeq([i \in 1..Len(docs) |-> SumTerm(IfNull(docs[i].paid, Num(0)))])

\* faulty variant: the sums are added to those the previous call returned
finance_totals_period_accumulating(col, d_from, d_to) ==
    LET docs == SelectSeq(col, LAMBDA t : _match_period(t, d_from, d_to))
        sums == IF docs = <<>> THEN <<0, 0>>
                ELSE <<GroupSumFee(docs), GroupSumPaid(docs)>>
    IN  IF resp.view = "finance_dashboard" /\ resp.status = "ok"
        THEN <<resp.billed + sums[1], resp.collected + sums[2]>>
        ELSE sums
finance_totals_period(col, d_from, d_to) ==
    LET docs == SelectSeq(col, LAMBDA t : _match_period(t, d_from, d_to))
    IN  IF docs = <<>> THEN <<0, 0>>
        ELSE <<GroupSumFee(docs), GroupSumPaid(docs)>>

\* faulty variant: only the documents whose patient is stored are summed
finance_totals_all_time_joined(col) ==
    LET docs == SelectSeq(col, LAMBDA t : /\ _match_all_time(t)
                                          /\ t.patient_id.v \in DOMAIN patients)
    IN  IF docs = <<>> THEN <<0, 0>>
        ELSE <<GroupSumFee(docs), GroupSumPaid(docs)>>
finance_totals_all_time(col) ==
    LET docs == SelectSeq(col, _match_all_time)
    IN  IF docs = <<>> THEN <<0, 0>>
        ELSE <<GroupSumFee(docs), GroupSumPaid(docs)>>

\* faulty variant: the difference without {"$max": [..., 0]}
ProjectBalUnclamped(t) == IfNull(t.fee, Num(0)).v - IfNull(t.paid, Num(0)).v
\* {"$max": [{"$subtract": [fee, paid]}, 0]} of one document
ProjectBal(t) == Max2(IfNull(t.fee, Num(0)).v - IfNull(t.paid, Num(0)).v, 0)

\* {"$subtract": [a, b]} raises when an operand is no number (a string)
SubtractFails(a, b) == ~IsNumber(a) \/ ~IsNumber(b)
\* the aggregation fails when the "bal" of a matched document cannot be
\* computed
BalPipelineFails(col) ==
    \E i \in 1..Len(col) :
        /\ _match_all_time(col[i])
        /\ SubtractFails(IfNull(col[i].fee, Num(0)), IfNull(col[i].paid, Num(0)))

\* faulty variant: the clamp applied to the sum instead of each document
outstanding_clamped_after_sum(col) ==
    LET docs == SelectSeq(col, _match_all_time)
    IN  IF docs = <<>> THEN 0
        ELSE Max2(SumSeq([i \in 1..Len(docs) |->
                     IfNull(docs[i].fee, Num(0)).v - IfNull(docs[i].paid, Num(0)).v]), 0)
outstanding_all_time(col) ==
    LET docs == SelectSeq(col, _match_all_time)
    IN  IF docs = <<>> THEN 0
        ELSE SumSeq([i \in 1..Len(docs) |-> ProjectBal(docs[i])])

\* the text "Unknown"
Unknown == <<85, 110, 107, 110, 111, 119, 110>>
\* a text field that is null or missing (no string holds the code 0)
NullText == <<0>>
\* {"$ifNull": [s, d]} on a text field: only null is replaced, "" is kept
IfNullText(s, d) == IF s = NullText THEN d ELSE s

\* the sequences over a finite set that list each element once
Orders(S) ==
    {s \in [1..Cardinality(S) -> S] : \A i, j \in DOMAIN s : i # j => s[i] # s[j]}

\* the $group of the series: keys[i] is the group key of docs[i]; one
\* document per key, with the two sums over the documents that carry it
SeriesGroups(docs, keys) ==
    {[_id |-> k,
      billed |-> SumSeq([i \in 1..Len(docs) |->
                    IF keys[i] = k THEN SumTerm(IfNull(docs[i].fee, Num(0))) ELSE 0]),
      collected |-> SumSeq([i \in 1..Len(docs) |->
                       IF keys[i] = k THEN SumTerm(IfNull(docs[i].paid, Num(0))) ELSE 0])]
     : k \in {keys[i] : i \in 1..Len(docs)}}

\* {"$sort": {"_id": 1}}: the keys of the groups are distinct strings
SortByIdAsc(groups) ==
    CHOOSE s \in Orders(groups) :
        \A i, j \in DOMAIN s : i < j => LexLess(s[i]._id, s[j]._id)

\* {"$sort": {"billed": -1}}: every order the sort can produce
SortByBilledDesc(groups) ==
    {s \in Orders(groups) : \A i, j \in DOMAIN s : i < j => s[i].billed >= s[j].billed}

\* "$date" as the group key
DateKey(t) == t.date
\* {"$concat": [{"$substr": ["$date", 0, 7]}, "-01"]}
MonthKey(t) == SubSeq(t.date, 1, Min2(7, Len(t.date))) \o <<Dash, Digit(0), Digit(1)>>
\* {"$ifNull": ["$dentist", "Unknown"]}: a document may lack the field
DentistKey(t) ==
    IfNullText(IF "dentist" \in DOMAIN t THEN t.dentist ELSE NullText, Unknown)

series_daily(col, d_from, d_to) ==
    LET docs == SelectSeq(col, LAMBDA t : _match_period(t, d_from, d_to))
    IN  SortByIdAsc(SeriesGroups(docs, [i \in 1..Len(docs) |-> DateKey(docs[i])]))

series_monthly(col, d_from, d_to) ==
    LET docs == SelectSeq(col, LAMBDA t : _match_period(t, d_from, d_to))
    IN  SortByIdAsc(SeriesGroups(docs, [i \in 1..Len(docs) |-> MonthKey(docs[i])]))

\* faulty variant: documents without a dentist are left out of the series
series_dentist_named(col, d_from, d_to) ==
    LET docs == SelectSeq(col, LAMBDA t : _match_period(t, d_from, d_to)
                                          /\ "dentist" \in DOMAIN t)
    IN  SortByBilledDesc(SeriesGroups(docs, [i \in 1..Len(docs) |-> DentistKey(docs[i])]))
\* every list series_dentist can return
series_dentist(col, d_from, d_to) ==
    LET docs == SelectSeq(col, LAMBDA t : _match_period(t, d_from, d_to))
    IN  SortByBilledDesc(SeriesGroups(docs, [i \in 1..Len(docs) |-> DentistKey(docs[i])]))

\* {"$toObjectId": x}: a 24-hex string converts, null stays null, any
\* other string makes the aggregation fail
ToObjectIdFails(x) == x.type = "string" /\ x.v = 0
ToObjectId(x) == IF x.type = "string" THEN ObjectId(x.v) ELSE x

\* faulty variant: the reference grouped as stored
ProjectPidAsStored(t) == t.patient_id
\* the "pid" of the $project stage
ProjectPid(t) ==
    IF t.patient_id.type = "objectId" THEN t.patient_id
    ELSE ToObjectId(t.patient_id)

\* the aggregation fails when $toObjectId meets an unparsable string
PidPipelineFails(col) ==
    \E i \in 1..Len(col) :
        /\ _match_all_time(col[i])
        /\ col[i].patient_id.type # "objectId"
        /\ ToObjectIdFails(col[i].patient_id)

\* faulty variant: the balance of a patient is netted, overpayment included
GroupByPidNet(col) ==
    LET docs == SelectSeq(col, _match_all_time)
        pids == {ProjectPid(docs[i]) : i \in 1..Len(docs)}
    IN  {[_id |-> p,
          balance |-> SumSeq([i \in 1..Len(docs) |->
                         IF ProjectPid(docs[i]) = p
                         THEN IfNull(docs[i].fee, Num(0)).v - IfNull(docs[i].paid, Num(0)).v
                         ELSE 0])]
         : p \in pids}
\* {"$group": {"_id": "$pid", "balance": {"$sum": "$bal"}}}
GroupByPid(col) ==
    LET docs == SelectSeq(col, _match_all_time)
        pids == {ProjectPid(docs[i]) : i \in 1..Len(docs)}
    IN  {[_id |-> p,
          balance |-> SumSeq([i \in 1..Len(docs) |->
                         IF ProjectPid(docs[i]) = p THEN ProjectBal(docs[i]) ELSE 0])]
         : p \in pids}

\* {"$sort": {"balance": -1}}: every order of the groups the sort can
\* produce (the order among equal balances is not determined)
SortByBalanceDesc(groups) ==
    {s \in [1..Cardinality(groups) -> groups] :
        /\ \A i, j \in DOMAIN s : i # j => s[i] # s[j]
        /\ \A i, j \in DOMAIN s : i < j => s[i].balance >= s[j].balance}

\* {"$limit": n}
Limit(s, n) == SubSeq(s, 1, Min2(n, Len(s)))

\* {"$trim": {"input": s}}
RECURSIVE TrimLeft(_)
TrimLeft(s) == IF s # <<>> /\ Head(s) = Space THEN TrimLeft(Tail(s)) ELSE s
RECURSIVE TrimRight(_)
TrimRight(s) ==
    IF s # <<>> /\ s[Len(s)] = Space THEN TrimRight(SubSeq(s, 1, Len(s) - 1)) ELSE s
Trim(s) == TrimRight(TrimLeft(s))

\* $lookup, $arrayElemAt and the "name" of $addFields: the fields of a
\* patient that is not found are missing and $ifNull makes them ""
LookupName(pcol, id) ==
    LET found == id.type = "objectId" /\ id.v \in DOMAIN pcol
        first == IF found THEN pcol[id.v].first_name ELSE <<>>
        last == IF found THEN pcol[id.v].last_name ELSE <<>>
    IN  Trim(first \o <<Space>> \o last)

\* the final $project: _id is dropped, balance is kept, and name is
\* {"$ifNull": ["$name", "Unknown"]}
ProjectEntry(pcol, g) ==
    [name |-> IfNullText(LookupName(pcol, g._id), Unknown), balance |-> g.balance]

\* every list top_outstanding_by_patient can return
top_outstanding_by_patient(col, pcol, limit) ==
    {[i \in 1..Len(Limit(s, limit)) |-> ProjectEntry(pcol, s[i])] :
        s \in SortByBalanceDesc(GroupByPid(col))}

-----------------------------------------------------------------------------
(* State of the store and the request handlers *)

Absent == [seq |-> 0 - 1]            \* no counter document yet
Handlers == 1..NumHandlers
NoResp == [view |-> "none"]
NoLocals == [patient_id |-> 0]
NotGiven == <<>>                     \* a query parameter that is absent or ""

Fees == {1, 2}
Payments == {0, 2}
Flags == BOOLEAN
Statuses == {"none", "void"}

Day(n) == FormatYmd(DateOfOrdinal(n))
Jan01 == Day(1)
Jan31 == Day(31)
Feb01 == Day(32)
Mar02 == Day(61)
\* February 10th as a form that sends month/day/year stores it
Feb10Mdy == FormatMdy(DateOfOrdinal(41))

\* the documents a ledger is drawn from, by the aspect a specification varies
LedgerDocs ==
    {Doc(0, ObjectId(1), Feb01, Num(f), Num(p), d, st) :
        f \in Fees, p \in Payments, d \in Flags, st \in Statuses}
PeriodDocs ==
    {Doc(0, ObjectId(1), dt, Num(f), Num(1), FALSE, st) :
        dt \in {Jan01, Jan31, Mar02, Feb10Mdy}, f \in {1, 2}, st \in Statuses}
WindowDocs ==
    {Doc(0, ObjectId(1), dt, Num(f), Num(1), FALSE, "none") :
        dt \in {Jan01, Mar02}, f \in Fees}
PatientRefs == {ObjectId(1), HexStr(1), ObjectId(2), NameStr}
PatientDocs ==
    {Doc(0, pid, Feb01, Num(f), Num(p), FALSE, st) :
        pid \in PatientRefs, f \in {2}, p \in {0, 2, 3}, st \in Statuses}
InvoiceDocs ==
    {Doc(0, ObjectId(1), Feb01, Num(f), Num(p), FALSE, "none") :
        f \in Fees, p \in Payments}

\* the ledgers of at most MaxRecs documents over D, with _id 1..n
Ledgers(D) ==
    UNION {{[i \in 1..n |-> [s[i] EXCEPT !._id = i]] : s \in [1..n -> D]}
           : n \in 0..MaxRecs}

InitStore(D) ==
    /\ treatments \in Ledgers(D)
    /\ patients = AllPatients
    /\ appointments = <<>>
    /\ counters = Absent
    /\ invoices = <<>>
    /\ pc = [h \in Handlers |-> "start"]
    /\ loc = [h \in Handlers |-> NoLocals]
    /\ issued = <<>>
    /\ resp = NoResp

Idle == \A h \in Handlers : pc[h] = "start"

-----------------------------------------------------------------------------
(* app.py: views that compute totals *)

\* dashboard, the finance part (the pipelines totals_pipe and ar_pipe)
DashboardTotals(col) ==
    LET docs == SelectSeq(col, _match_all_time)
        total_fee == IF docs = <<>> THEN 0 ELSE GroupSumFee(docs)
        total_paid == IF docs = <<>> THEN 0 ELSE GroupSumPaid(docs)
        owing == {g \in GroupByPid(col) : g.balance > 0}
        bals == CHOOSE s \in [1..Cardinality(owing) -> owing] :
                    \A i, j \in DOMAIN s : i # j => s[i] # s[j]
    IN  [view |-> "dashboard", status |-> "ok",
         total_fee |-> total_fee, total_paid |-> total_paid,
         pending_balance |-> Max2(total_fee - total_paid, 0),
         ar_patients |-> Cardinality(owing),
         ar_total |-> SumSeq([i \in DOMAIN bals |-> bals[i].balance])]

dashboard ==
    /\ Idle
    /\ resp' = IF PidPipelineFails(treatments) \/ BalPipelineFails(treatments)
               THEN [view |-> "dashboard", status |-> "error"]
               ELSE DashboardTotals(treatments)
    /\ UNCHANGED <<appointments, treatments, patients, counters, invoices, pc, loc, issued>>

\* t.get("fee", 0) of a document read by the driver
GetAmount(x) == IfNull(x, Num(0)).v

\* finance_report: the totals are summed over treatments_col.find()
FinanceReportTotals(col) ==
    LET total_fee == SumSeq([i \in 1..Len(col) |-> GetAmount(col[i].fee)])
        total_paid == SumSeq([i \in 1..Len(col) |-> GetAmount(col[i].paid)])
    IN  [view |-> "finance_report", status |-> "ok",
         total_fee |-> total_fee, total_paid |-> total_paid,
         pending_balance |-> total_fee - total_paid]

\* sum() over the amounts raises TypeError when one of them is a string
SumFails(col) ==
    \E i \in 1..Len(col) :
        ~IsNumber(IfNull(col[i].fee, Num(0))) \/ ~IsNumber(IfNull(col[i].paid, Num(0)))

finance_report ==
    /\ Idle
    /\ resp' = IF SumFails(treatments)
               THEN [view |-> "finance_report", status |-> "error"]
               ELSE FinanceReportTotals(treatments)
    /\ UNCHANGED <<appointments, treatments, patients, counters, invoices, pc, loc, issued>>

\* _to_float
_to_float(x) == IF x.type = "double" THEN x.v ELSE 0

\* view_patient
view_patient(patient_id) ==
    /\ Idle
    /\ IF patient_id \notin DOMAIN patients
       THEN resp' = [view |-> "view_patient", status |-> "not_found"]
       ELSE LET raw == SelectSeq(treatments,
                           LAMBDA t : t.patient_id = ObjectId(patient_id))
                total_fee == SumSeq([i \in 1..Len(raw) |-> _to_float(raw[i].fee)])
                total_paid == SumSeq([i \in 1..Len(raw) |-> _to_float(raw[i].paid)])
            IN  resp' = [view |-> "view_patient", status |-> "ok",
                         patient_id |-> patient_id,
                         total_fee |-> total_fee, total_paid |-> total_paid,
                         remaining |-> Max2(total_fee - total_paid, 0)]
    /\ UNCHANGED <<appointments, treatments, patients, counters, invoices, pc, loc, issued>>

\* finance_reports (/reports/finance)
finance_reports(arg_from, arg_to) ==
    /\ Idle
    /\ LET qs_to == IF arg_to = NotGiven THEN FormatYmd(Today) ELSE arg_to
           to_dt == StrptimeYmd(qs_to)
           qs_from == IF arg_from = NotGiven
                      THEN FormatYmd(MinusDays(to_dt, WindowDays))
                      ELSE arg_from
           totals == finance_totals_period(treatments, qs_from, qs_to)
       IN  \E top \in top_outstanding_by_patient(treatments, patients, TopLimit),
              dentist \in series_dentist(treatments, qs_from, qs_to) :
             resp' =
               IF \/ (arg_from = NotGiven /\ to_dt = NoDate)
                  \/ BalPipelineFails(treatments)
                  \/ PidPipelineFails(treatments)
                  \/ StrptimeYmd(qs_from) = NoDate
                  \/ to_dt = NoDate
               THEN [view |-> "finance_reports", status |-> "error"]
               ELSE [view |-> "finance_reports", status |-> "ok",
                     arg_from |-> arg_from, arg_to |-> arg_to,
                     d_from |-> qs_from, d_to |-> qs_to,
                     billed |-> totals[1], collected |-> totals[2],
                     outstanding |-> outstanding_all_time(treatments),
                     daily |-> series_daily(treatments, qs_from, qs_to),
                     monthly |-> series_monthly(treatments, qs_from, qs_to),
                     dentist |-> dentist,
                     top |-> top]
    /\ UNCHANGED <<appointments, treatments, patients, counters, invoices, pc, loc, issued>>

\* finance_dashboard (/finance)
finance_dashboard(arg_from, arg_to) ==
    /\ Idle
    /\ LET windowed == arg_from # NotGiven /\ arg_to # NotGiven
           totals == IF windowed
                     THEN finance_totals_period(treatments, arg_from, arg_to)
                     ELSE finance_totals_all_time(treatments)
       IN  \E top \in top_outstanding_by_patient(treatments, patients, TopLimit),
              dentist \in IF windowed
                          THEN series_dentist(treatments, arg_from, arg_to)
                          ELSE {<<>>} :
             resp' =
               IF \/ (windowed /\ (StrptimeYmd(arg_from) = NoDate
                                   \/ StrptimeYmd(arg_to) = NoDate))
                  \/ BalPipelineFails(treatments)
                  \/ PidPipelineFails(treatments)
               THEN [view |-> "finance_dashboard", status |-> "error"]
               ELSE [view |-> "finance_dashboard", status |-> "ok",
                     arg_from |-> arg_from, arg_to |-> arg_to,
                     d_from |-> IF windowed THEN arg_from ELSE NotGiven,
                     d_to |-> IF windowed THEN arg_to ELSE NotGiven,
                     billed |-> totals[1], collected |-> totals[2],
                     outstanding |-> outstanding_all_time(treatments),
                     daily |-> IF windowed
                               THEN series_daily(treatments, arg_from, arg_to)
                               ELSE <<>>,
                     monthly |-> IF windowed
                                 THEN series_monthly(treatments, arg_from, arg_to)
                                 ELSE <<>>,
                     dentist |-> dentist,
                     top |-> top]
    /\ UNCHANGED <<appointments, treatments, patients, counters, invoices, pc, loc, issued>>

\* a direct call of top_outstanding_by_patient with a limit
top_outstanding(limit) ==
    /\ Idle
    /\ \E top \in top_outstanding_by_patient(treatments, patients, limit) :
         resp' = IF PidPipelineFails(treatments) \/ BalPipelineFails(treatments)
                 THEN [view |-> "top_outstanding", status |-> "error"]
                 ELSE [view |-> "top_outstanding", status |-> "ok",
                       limit |-> limit, top |-> top]
    /\ UNCHANGED <<appointments, treatments, patients, counters, invoices, pc, loc, issued>>

-----------------------------------------------------------------------------
(* app.py: treatment entry *)

\* a submitted form field that float() parses, and one it rejects
FormNum(n) == [text |-> "number", v |-> n]
FormText == [text |-> "other", v |-> 0]
FloatFails(x) == x.text # "number"

\* add_new_treatment (POST): the document has no is_deleted and no status
add_new_treatment(form) ==
    /\ Idle
    /\ NewId(treatments) <= MaxRecs
    /\ IF \/ ToObjectIdFails(form.patient_id)
          \/ FloatFails(form.fee)
          \/ FloatFails(form.paid)
       THEN /\ resp' = [view |-> "add_new_treatment", status |-> "error"]
            /\ UNCHANGED treatments
       ELSE /\ treatments' = Append(treatments,
                  Doc(NewId(treatments), ToObjectId(form.patient_id), form.date,
                      Num(form.fee.v), Num(form.paid.v), FALSE, "none"))
            /\ resp' = [view |-> "add_new_treatment", status |-> "ok"]
    /\ UNCHANGED <<appointments, patients, counters, invoices, pc, loc, issued>>

-----------------------------------------------------------------------------
(* app.py: sessions and patient deletion *)

\* session["user"] of the request: nobody logged in, a staff account, an
\* administrator
Anonymous == [role |-> "none"]
Users == {Anonymous, [role |-> "user"], [role |-> "admin"]}

\* the decorators imported from auth: login_required lets every logged-in
\* user pass, admin_required only an administrator
login_required(user) == user # Anonymous
admin_required(user) == user.role = "admin"

\* delete_patient: patients_col.delete_one and nothing else
delete_patient(user, patient_id) ==
    /\ IF admin_required(user)
       THEN /\ patients' = [n \in DOMAIN patients \ {patient_id} |-> patients[n]]
            /\ resp' = [view |-> "delete_patient", status |-> "ok",
                        patient_id |-> patient_id]
       ELSE /\ resp' = [view |-> "delete_patient", status |-> "forbidden",
                        patient_id |-> patient_id]
            /\ UNCHANGED patients
    /\ UNCHANGED <<appointments, treatments, counters, invoices, pc, loc, issued>>

-----------------------------------------------------------------------------
(* app.py: treatment rows of a patient, edits and removal *)

\* float(fees[i]) or float(paids[i]) raises for the row
RowFails(row) == FloatFails(row.fee) \/ FloatFails(row.paid)
\* faulty variant: nothing is inserted unless every row parses
StoredRows_all_or_nothing(rows) ==
    IF \E k \in 1..Len(rows) : RowFails(rows[k]) THEN <<>> ELSE rows
\* the rows the loop of add_treatment inserts before the first row that
\* raises
RECURSIVE StoredRows(_)
StoredRows(rows) ==
    IF rows = <<>> \/ RowFails(Head(rows)) THEN <<>>
    ELSE <<Head(rows)>> \o StoredRows(Tail(rows))

\* add_treatment: one insert_one per row, in the order of the form
add_treatment(user, patient_id, rows) ==
    /\ NewId(treatments) + Len(rows) - 1 <= MaxRecs
    /\ IF ~login_required(user)
       THEN /\ resp' = [view |-> "add_treatment", status |-> "login", role |-> user.role,
                        patient_id |-> patient_id, rows |-> rows]
            /\ UNCHANGED treatments
       ELSE LET stored == StoredRows(rows)
            IN  /\ treatments' = treatments \o
                      [k \in 1..Len(stored) |->
                         Doc(NewId(treatments) + k - 1, ObjectId(patient_id),
                             stored[k].date, Num(stored[k].fee.v),
                             Num(stored[k].paid.v), FALSE, "none")]
                /\ resp' = [view |-> "add_treatment",
                            status |-> IF Len(stored) = Len(rows) THEN "ok" ELSE "error",
                            role |-> user.role, patient_id |-> patient_id,
                            rows |-> rows]
    /\ UNCHANGED <<appointments, patients, counters, invoices, pc, loc, issued>>

\* faulty variant: two writes, of which only the first one lands
SetAmounts_fee_only(col, id, fee, paid) ==
    [i \in DOMAIN col |->
        IF col[i]._id = id THEN [col[i] EXCEPT !.fee = Num(fee)] ELSE col[i]]
\* update_one({"_id": id}, {"$set": {"fee": fee, "paid": paid}})
SetAmounts(col, id, fee, paid) ==
    [i \in DOMAIN col |->
        IF col[i]._id = id
        THEN [col[i] EXCEPT !.fee = Num(fee), !.paid = Num(paid)]
        ELSE col[i]]

\* delete_one({"_id": id})
DeleteOne(col, id) == SelectSeq(col, LAMBDA t : t._id # id)

\* remove_treatment: the document is looked up and then deleted
remove_treatment(user, treatment_id) ==
    /\ IF ~login_required(user)
       THEN /\ resp' = [view |-> "remove_treatment", status |-> "login",
                        role |-> user.role,
                        treatment_id |-> treatment_id]
            /\ UNCHANGED treatments
       ELSE IF \A i \in 1..Len(treatments) : treatments[i]._id # treatment_id
       THEN /\ resp' = [view |-> "remove_treatment", status |-> "not_found",
                        role |-> user.role,
                        treatment_id |-> treatment_id]
            /\ UNCHANGED treatments
       ELSE /\ treatments' = DeleteOne(treatments, treatment_id)
            /\ resp' = [view |-> "remove_treatment", status |-> "ok",
                        role |-> user.role,
                        treatment_id |-> treatment_id]
    /\ UNCHANGED <<appointments, patients, counters, invoices, pc, loc, issued>>

\* update_treatment_from_report: float() of both fields, then update_one
update_treatment_from_report(user, treatment_id, form) ==
    /\ IF ~login_required(user)
       THEN /\ resp' = [view |-> "update_treatment_from_report", status |-> "login",
                        role |-> user.role,
                        treatment_id |-> treatment_id, form |-> form]
            /\ UNCHANGED treatments
       ELSE IF RowFails(form)
       THEN /\ resp' = [view |-> "update_treatment_from_report", status |-> "error",
                        role |-> user.role,
                        treatment_id |-> treatment_id, form |-> form]
            /\ UNCHANGED treatments
       ELSE /\ treatments' = SetAmounts(treatments, treatment_id, form.fee.v, form.paid.v)
            /\ resp' = [view |-> "update_treatment_from_report", status |-> "ok",
                        role |-> user.role,
                        treatment_id |-> treatment_id, form |-> form]
    /\ UNCHANGED <<appointments, patients, counters, invoices, pc, loc, issued>>

\* update_treatment_inline: the same update, then find_one for the
\* redirect, which raises when the document does not exist
update_treatment_inline(user, treatment_id, form) ==
    /\ IF ~login_required(user)
       THEN /\ resp' = [view |-> "update_treatment_inline", status |-> "login",
                        role |-> user.role,
                        treatment_id |-> treatment_id, form |-> form]
            /\ UNCHANGED treatments
       ELSE IF RowFails(form)
       THEN /\ resp' = [view |-> "update_treatment_inline", status |-> "error",
                        role |-> user.role,
                        treatment_id |-> treatment_id, form |-> form]
            /\ UNCHANGED treatments
       ELSE /\ treatments' = SetAmounts(treatments, treatment_id, form.fee.v, form.paid.v)
            /\ resp' = [view |-> "update_treatment_inline",
                        status |-> IF \E i \in 1..Len(treatments) :
                                         treatments[i]._id = treatment_id
                                   THEN "ok" ELSE "error",
                        role |-> user.role,
                        treatment_id |-> treatment_id, form |-> form]
    /\ UNCHANGED <<appointments, patients, counters, invoices, pc, loc, issued>>

-----------------------------------------------------------------------------
(* app.py: patient forms (branch, allergies) *)

\* "Baguio" and "Tarlac"
ALLOWED_BRANCHES == {<<66, 97, 103, 117, 105, 111>>, <<84, 97, 114, 108, 97, 99>>}
DEFAULT_BRANCH == <<66, 97, 103, 117, 105, 111>>

\* faulty variant: the chosen value is stored without the membership test
_normalize_branch_unchecked(selected_values, current_value) ==
    LET vals == SelectSeq([i \in 1..Len(selected_values) |-> Trim(selected_values[i])],
                          LAMBDA v : v # <<>>)
    IN  IF vals # <<>> THEN vals[Len(vals)] ELSE current_value
\* _normalize_branch inside edit_patient
_normalize_branch(selected_values, current_value) ==
    LET vals == SelectSeq([i \in 1..Len(selected_values) |-> Trim(selected_values[i])],
                          LAMBDA v : v # <<>>)
        chosen == IF vals # <<>> THEN vals[Len(vals)] ELSE current_value
    IN  IF chosen \in ALLOWED_BRANCHES THEN chosen
        ELSE IF current_value \in ALLOWED_BRANCHES THEN current_value
        ELSE DEFAULT_BRANCH

\* s.split(c): the pieces of s between the occurrences of the character c
RECURSIVE SplitOn(_, _)
SplitOn(s, c) ==
    IF \A i \in 1..Len(s) : s[i] # c THEN <<s>>
    ELSE LET i == CHOOSE k \in 1..Len(s) :
                      s[k] = c /\ \A j \in 1..(k - 1) : s[j] # c
         IN  <<SubSeq(s, 1, i - 1)>> \o SplitOn(SubSeq(s, i + 1, Len(s)), c)

\* list(dict.fromkeys(items)): duplicates removed, the first occurrence kept
RECURSIVE Dedupe(_)
Dedupe(items) ==
    IF items = <<>> THEN <<>>
    ELSE LET front == Dedupe(SubSeq(items, 1, Len(items) - 1))
             last == items[Len(items)]
         IN  IF \E k \in 1..Len(front) : front[k] = last THEN front
             ELSE Append(front, last)

\* faulty variant: the list is stored whatever the flag says
_parse_allergies_unflagged(has_allergy_val, allergies_raw) ==
    LET raw == [i \in 1..Len(allergies_raw) |->
                   IF allergies_raw[i] = 59 THEN 44 ELSE allergies_raw[i]]
        pieces == SplitOn(Trim(raw), 44)
        items == SelectSeq([i \in 1..Len(pieces) |-> Trim(pieces[i])],
                           LAMBDA v : v # <<>>)
    IN  [has_allergy |-> has_allergy_val = "on", allergies |-> Dedupe(items)]
\* _parse_allergies: ";" (59) is replaced by "," (44) before the split
_parse_allergies(has_allergy_val, allergies_raw) ==
    LET has == has_allergy_val = "on"
        raw == [i \in 1..Len(allergies_raw) |->
                   IF allergies_raw[i] = 59 THEN 44 ELSE allergies_raw[i]]
        pieces == SplitOn(Trim(raw), 44)
        items == SelectSeq([i \in 1..Len(pieces) |-> Trim(pieces[i])],
                           LAMBDA v : v # <<>>)
    IN  [has_allergy |-> has, allergies |-> IF has THEN Dedupe(items) ELSE <<>>]

\* add_patient (POST): the last submitted branch must be an allowed one;
\* the new document has no tooth_conditions
add_patient(form) ==
    /\ Cardinality(DOMAIN patients) + 1 \in PatientIds
    /\ LET id == Cardinality(DOMAIN patients) + 1
           branch == IF form.branch = <<>> THEN <<>>
                     ELSE Trim(form.branch[Len(form.branch)])
           parsed == _parse_allergies(form.has_allergy, form.allergies)
       IN  IF branch \notin ALLOWED_BRANCHES
           THEN /\ resp' = [view |-> "add_patient", status |-> "invalid", form |-> form]
                /\ UNCHANGED patients
           ELSE /\ patients' =
                     [n \in DOMAIN patients \cup {id} |->
                        IF n = id
                        THEN [first_name |-> PatientDoc(id).first_name,
                              last_name |-> PatientDoc(id).last_name,
                              branch |-> branch,
                              has_allergy |-> parsed.has_allergy,
                              allergies |-> parsed.allergies,
                              tooth_conditions |-> {}]
                        ELSE patients[n]]
                /\ resp' = [view |-> "add_patient", status |-> "ok",
                            patient_id |-> id, form |-> form]
    /\ UNCHANGED <<appointments, treatments, counters, invoices, pc, loc, issued>>

\* edit_patient (POST): the fields of the form are $set on the document
edit_patient(patient_id, form) ==
    /\ IF patient_id \notin DOMAIN patients
       THEN /\ resp' = [view |-> "edit_patient", status |-> "not_found",
                        patient_id |-> patient_id, form |-> form]
            /\ UNCHANGED patients
       ELSE LET parsed == _parse_allergies(form.has_allergy, form.allergies)
            IN  /\ patients' =
                      [patients EXCEPT ![patient_id] =
                         [@ EXCEPT !.branch = _normalize_branch(form.branch, @),
                                   !.has_allergy = parsed.has_allergy,
                                   !.allergies = parsed.allergies]]
                /\ resp' = [view |-> "edit_patient", status |-> "ok",
                            patient_id |-> patient_id, form |-> form]
    /\ UNCHANGED <<appointments, treatments, counters, invoices, pc, loc, issued>>

-----------------------------------------------------------------------------
(* app.py: tooth conditions *)

\* A tooth_conditions document is a set of entries, one per key: an entry is
\* a code (kind "code") or an embedded document (kind "doc") whose own
\* entries are in sub.  The store reads a dotted field name as a path.
VALID_CONDS == {"C", "M", "F", "Un", "PD", "Fc", "Ab", "P", "PJC", "CLA", "RRF"}

\* update_one with $unset (condition "") or $set of tooth_conditions.<path>,
\* for a path of one or two segments
ToothUpdate(map, path, condition) ==
    LET key == path[1]
        old == {e \in map : e.tooth = key}
        rest == map \ old
    IN  IF Len(path) = 1
        THEN IF condition = "" THEN rest
             ELSE rest \cup {[tooth |-> key, kind |-> "code", code |-> condition,
                              sub |-> {}]}
        ELSE IF condition = ""
             THEN {IF e.tooth = key /\ e.kind = "doc"
                   THEN [e EXCEPT !.sub = {x \in @ : x.tooth # path[2]}]
                   ELSE e : e \in map}
             ELSE LET kept == UNION {{x \in e.sub : x.tooth # path[2]} : e \in old}
                  IN  rest \cup {[tooth |-> key, kind |-> "doc", code |-> "",
                                   sub |-> kept \cup {[tooth |-> path[2],
                                                        code |-> condition]}]}

\* save_tooth_condition: "." is character 46; a $set below a key that holds
\* a code is refused by the store, and the handler answers 500
save_tooth_condition(patient_id, data) ==
    LET tooth == Trim(data.tooth)
        path == SplitOn(tooth, 46)
        found == patient_id \in DOMAIN patients
        refused == /\ found /\ Len(path) > 1
                   /\ \E e \in patients[patient_id].tooth_conditions :
                          e.tooth = path[1] /\ e.kind = "code"
        status == IF tooth = <<>> THEN "missing_tooth"
                  ELSE IF data.condition = "" THEN "ok"
                  ELSE IF data.condition \notin VALID_CONDS THEN "invalid"
                  ELSE IF refused THEN "error"
                  ELSE "ok"
    IN  /\ patients' =
              IF status = "ok" /\ found
              THEN [patients EXCEPT ![patient_id].tooth_conditions =
                       ToothUpdate(@, path, data.condition)]
              ELSE patients
        /\ resp' = [view |-> "save_tooth_condition", status |-> status,
                    patient_id |-> patient_id, data |-> data]
        /\ UNCHANGED <<appointments, treatments, counters, invoices, pc, loc, issued>>

\* reset_tooth_condition: $unset of the whole field
reset_tooth_condition(patient_id) ==
    /\ patients' =
          IF patient_id \in DOMAIN patients
          THEN [patients EXCEPT ![patient_id].tooth_conditions = {}]
          ELSE patients
    /\ resp' = [view |-> "reset_tooth_condition", status |-> "ok",
                patient_id |-> patient_id]
    /\ UNCHANGED <<appointments, treatments, counters, invoices, pc, loc, issued>>

-----------------------------------------------------------------------------
(* app.py: appointments *)

\* add_appointment (POST)
add_appointment ==
    /\ Len(appointments) < MaxRecs
    /\ appointments' = Append(appointments, [status |-> "Pending"])
    /\ resp' = [view |-> "add_appointment", status |-> "ok"]
    /\ UNCHANGED <<patients, treatments, counters, invoices, pc, loc, issued>>

\* mark_completed
mark_completed(appointment_id) ==
    /\ appointments' =
          IF appointment_id \in DOMAIN appointments
          THEN [appointments EXCEPT ![appointment_id].status = "Completed"]
          ELSE appointments
    /\ resp' = [view |-> "mark_completed", status |-> "ok",
                appointment_id |-> appointment_id]
    /\ UNCHANGED <<patients, treatments, counters, invoices, pc, loc, issued>>

\* update_appointment_status: the submitted status is stored as it is
update_appointment_status(appointment_id, new_status) ==
    /\ appointments' =
          IF appointment_id \in DOMAIN appointments
          THEN [appointments EXCEPT ![appointment_id].status = new_status]
          ELSE appointments
    /\ resp' = [view |-> "update_appointment_status", status |-> "ok",
                appointment_id |-> appointment_id, new_status |-> new_status]
    /\ UNCHANGED <<patients, treatments, counters, invoices, pc, loc, issued>>

-----------------------------------------------------------------------------
(* app.py: invoice_pdf and the invoice counter *)

\* {"$inc": {"seq": 1}} with upsert=True: the document after the update
IncSeq(doc) == IF doc = Absent THEN [seq |-> 1] ELSE [seq |-> doc.seq + 1]

\* faulty variant: the driver's default, ReturnDocument.BEFORE
ReturnedDocumentBefore(before, after) == before
\* find_one_and_update(..., return_document=ReturnDocument.AFTER)
ReturnedDocument(before, after) == after

\* to_float inside invoice_pdf
to_float(x) == IF x.type = "double" THEN x.v ELSE 0

\* .sort("date", 1): insertion of t into a list sorted by date, after the
\* documents of the same date
RECURSIVE InsertByDate(_, _)
InsertByDate(t, s) ==
    IF s = <<>> THEN <<t>>
    ELSE IF LexLess(t.date, Head(s).date) THEN <<t>> \o s
    ELSE <<Head(s)>> \o InsertByDate(t, Tail(s))
RECURSIVE SortByDate(_)
SortByDate(s) ==
    IF s = <<>> THEN <<>>
    ELSE InsertByDate(s[Len(s)], SortByDate(SubSeq(s, 1, Len(s) - 1)))

\* patients_col.find_one
InvoiceFindPatient(h, patient_id) ==
    /\ pc[h] = "start"
    /\ IF patient_id \in DOMAIN patients
       THEN /\ pc' = [pc EXCEPT ![h] = "found"]
            /\ loc' = [loc EXCEPT ![h] = [patient_id |-> patient_id]]
            /\ UNCHANGED resp
       ELSE /\ pc' = [pc EXCEPT ![h] = "done"]
            /\ resp' = [view |-> "invoice_pdf", status |-> "not_found", handler |-> h]
            /\ UNCHANGED loc
    /\ UNCHANGED <<appointments, treatments, patients, counters, invoices, issued>>

\* treatments_col.find(...).sort("date", 1) and the totals
InvoiceFindTreatments(h) ==
    /\ pc[h] = "found"
    /\ LET found == SortByDate(SelectSeq(treatments,
                        LAMBDA t : t.patient_id = ObjectId(loc[h].patient_id)))
           total_fee == SumSeq([i \in 1..Len(found) |-> to_float(found[i].fee)])
           total_paid == SumSeq([i \in 1..Len(found) |-> to_float(found[i].paid)])
       IN  loc' = [loc EXCEPT ![h] =
                     [patient_id |-> loc[h].patient_id, treatments |-> found,
                      total_fee |-> total_fee, total_paid |-> total_paid,
                      balance |-> total_fee - total_paid]]
    /\ pc' = [pc EXCEPT ![h] = "fetched"]
    /\ UNCHANGED <<appointments, treatments, patients, counters, invoices, issued, resp>>

\* next_invoice_number: one atomic find_one_and_update
next_invoice_number(h) ==
    /\ pc[h] = "fetched"
    /\ counters' = IncSeq(counters)
    /\ LET doc == ReturnedDocument(counters, IncSeq(counters))
       IN  /\ loc' = [loc EXCEPT ![h] =
                        [patient_id |-> loc[h].patient_id,
                         treatments |-> loc[h].treatments,
                         total_fee |-> loc[h].total_fee,
                         total_paid |-> loc[h].total_paid,
                         balance |-> loc[h].balance,
                         invoice_no |-> doc.seq]]
           /\ issued' = Append(issued, doc.seq)
    /\ pc' = [pc EXCEPT ![h] = "numbered"]
    /\ UNCHANGED <<appointments, treatments, patients, invoices, resp>>

\* faulty variant: replace_one({"patient_id": ...}, doc, upsert=True)
ReplaceByPatient(col, doc) ==
    IF \E i \in 1..Len(col) : col[i].patient_id = doc.patient_id
    THEN [i \in 1..Len(col) |->
             IF col[i].patient_id = doc.patient_id THEN doc ELSE col[i]]
    ELSE Append(col, doc)
\* insert_one(doc): the collection gains one document
InsertOne(col, doc) == Append(col, doc)

\* invoices_col.insert_one(inv_doc) and the PDF response
InvoiceInsert(h) ==
    /\ pc[h] = "numbered"
    /\ invoices' = InsertOne(invoices,
          [patient_id |-> ObjectId(loc[h].patient_id),
           invoice_no |-> loc[h].invoice_no,
           treatments |-> loc[h].treatments,
           total_fee |-> loc[h].total_fee,
           total_paid |-> loc[h].total_paid,
           balance |-> loc[h].balance])
    /\ resp' = [view |-> "invoice_pdf", status |-> "ok", handler |-> h,
                invoice_no |-> loc[h].invoice_no]
    /\ pc' = [pc EXCEPT ![h] = "done"]
    /\ UNCHANGED <<appointments, treatments, patients, counters, loc, issued>>

-----------------------------------------------------------------------------
(* Specifications *)

AddForms(dates) ==
    {[patient_id |-> HexStr(1), fee |-> f, paid |-> p, date |-> d] :
        f \in {FormNum(n) : n \in Fees} \cup {FormText},
        p \in {FormNum(n) : n \in Payments},
        d \in dates}

\* The ledger with void and soft-deleted documents, and the views on it
Init == InitStore(LedgerDocs)
Next ==
    \/ dashboard
    \/ finance_report
    \/ \E p \in PatientIds \cup {3} : view_patient(p)
    \/ finance_reports(NotGiven, NotGiven)
    \/ finance_dashboard(NotGiven, NotGiven)
    \/ \E form \in AddForms({Feb01}) : add_new_treatment(form)
Spec == Init /\ [][Next]_vars

\* The ledger with dates in several windows and forms, and the period views
WindowArgs == {NotGiven, Jan31, Mar02}
InitPeriod == InitStore(PeriodDocs)
NextPeriod == \E f, t \in WindowArgs : finance_dashboard(f, t)
SpecPeriod == InitPeriod /\ [][NextPeriod]_vars

\* The two finance summaries, with every combination of given bounds
InitWindow == InitStore(WindowDocs)
NextWindow ==
    \/ \E f, t \in WindowArgs : finance_reports(f, t)
    \/ \E f, t \in WindowArgs : finance_dashboard(f, t)
SpecWindow == InitWindow /\ [][NextWindow]_vars

\* The ledger with both forms of patient reference, and the grouped views
InitPatients == InitStore(PatientDocs)
NextPatients ==
    \/ \E n \in 1..MaxRecs : top_outstanding(n)
    \/ finance_dashboard(NotGiven, NotGiven)
    \/ dashboard
SpecPatients == InitPatients /\ [][NextPatients]_vars

\* Concurrent invoice_pdf requests
InitInvoice == InitStore(InvoiceDocs)
NextInvoice ==
    \/ \E h \in Handlers, p \in {1, 3} : InvoiceFindPatient(h, p)
    \/ \E h \in Handlers : InvoiceFindTreatments(h)
    \/ \E h \in Handlers : next_invoice_number(h)
    \/ \E h \in Handlers : InvoiceInsert(h)
SpecInvoice == InitInvoice /\ [][NextInvoice]_vars

\* The ledger with dates in two months, two providers and a void document,
\* and the windowed finance dashboard with its series
WithDentist(t, name) ==
    [k \in DOMAIN t \cup {"dentist"} |-> IF k = "dentist" THEN name ELSE t[k]]
SeriesDocs ==
    LET plain == {Doc(0, ObjectId(1), dt, Num(f), Num(1), FALSE, "none") :
                     dt \in {Jan31, Feb01, Feb10Mdy}, f \in {1, 2}}
    IN  plain \cup {WithDentist(t, <<88>>) : t \in plain}
              \cup {Doc(0, ObjectId(1), Feb01, Num(2), Num(1), FALSE, "void")}
InitSeries == InitStore(SeriesDocs)
NextSeries == \E f, t \in WindowArgs : finance_dashboard(f, t)
SpecSeries == InitSeries /\ [][NextSeries]_vars

\* Documents as other writers of the store left them (patients deleted or
\* with blank names, references that are names, amounts that are text),
\* and the views that read the ledger
BlankPatient == [first_name |-> <<>>, last_name |-> <<>>]
RecordDocs ==
    {Doc(0, pid, Feb01, Num(2), Num(p), FALSE, "none") :
        pid \in {ObjectId(1), ObjectId(2), NameStr}, p \in {0, 2}}
    \cup {Doc(0, ObjectId(1), Feb01, Num(2), TextAmount, FALSE, "none"),
          Doc(0, ObjectId(1), Feb01, TextAmount, Num(2), FALSE, "none")}
StoredInvoice ==
    [patient_id |-> ObjectId(2), invoice_no |-> 1,
     treatments |-> <<Doc(1, ObjectId(2), Feb01, Num(2), Num(0), FALSE, "none")>>,
     total_fee |-> 2, total_paid |-> 0, balance |-> 2]
InitRecords ==
    /\ treatments \in Ledgers(RecordDocs)
    /\ patients \in {AllPatients, [AllPatients EXCEPT ![2] = BlankPatient]}
    /\ appointments = <<>>
    /\ counters \in {Absent, [seq |-> 1]}
    /\ invoices = IF counters = Absent THEN <<>> ELSE <<StoredInvoice>>
    /\ pc = [h \in Handlers |-> "start"]
    /\ loc = [h \in Handlers |-> NoLocals]
    /\ issued = <<>>
    /\ resp = NoResp
NextRecords ==
    \/ \E user \in Users, p \in PatientIds : delete_patient(user, p)
    \/ \E n \in 1..MaxRecs : top_outstanding(n)
    \/ finance_dashboard(NotGiven, NotGiven)
    \/ finance_dashboard(Jan31, Mar02)
SpecRecords == InitRecords /\ [][NextRecords]_vars

\* Entry, edit and removal of treatment records by the users of the clinic
EditDocs == {Doc(0, ObjectId(1), Feb01, Num(2), Num(0), FALSE, "none")}
RowForms ==
    {[date |-> Feb01, fee |-> f, paid |-> p] :
        f \in {FormNum(2), FormNum(0 - 1), FormText},
        p \in {FormNum(0), FormNum(0 - 1)}}
InitEdits == InitStore(EditDocs)
NextEdits ==
    \/ \E user \in Users, n \in 1..MaxRecs :
          \E rows \in [1..n -> {r \in RowForms : r.paid = FormNum(0)}] :
              add_treatment(user, 1, rows)
    \/ \E row \in RowForms :
          add_new_treatment([patient_id |-> HexStr(1), fee |-> row.fee,
                             paid |-> row.paid, date |-> row.date])
    \/ \E user \in Users, id \in 1..MaxRecs, row \in RowForms :
          update_treatment_from_report(user, id, row)
    \/ \E user \in Users, id \in 1..MaxRecs, row \in RowForms :
          update_treatment_inline(user, id, row)
    \/ \E user \in Users, id \in 1..MaxRecs : remove_treatment(user, id)
SpecEdits == InitEdits /\ [][NextEdits]_vars

\* Two invoice requests interleaved with an edit and the removal of the
\* patient's first treatment document and with the deletion of the patient
InitSnapshots == InitStore(EditDocs)
NextSnapshots ==
    \/ \E h \in Handlers \cap {1, 2} : InvoiceFindPatient(h, 1)
    \/ \E h \in Handlers \cap {1, 2} : InvoiceFindTreatments(h)
    \/ \E h \in Handlers \cap {1, 2} : next_invoice_number(h)
    \/ \E h \in Handlers \cap {1, 2} : InvoiceInsert(h)
    \/ update_treatment_inline([role |-> "user"], 1,
          [date |-> Feb01, fee |-> FormNum(1), paid |-> FormNum(0)])
    \/ remove_treatment([role |-> "user"], 1)
    \/ delete_patient([role |-> "admin"], 1)
SpecSnapshots == InitSnapshots /\ [][NextSnapshots]_vars

\* Patient forms and tooth conditions: the store starts without patients.
\* Branch values: absent, " Tarlac ", "Cebu", and "Baguio" followed by a
\* blank; allergy texts: "p, l; l" and " ; "; tooth ids "8", "8.1" and "".
PatientForms ==
    [branch : {<<>>, <<<<32, 84, 97, 114, 108, 97, 99, 32>>>>,
               <<<<67, 101, 98, 117>>>>,
               <<<<66, 97, 103, 117, 105, 111>>, <<>>>>},
     has_allergy : {"on", "off"},
     allergies : {<<112, 44, 32, 108, 59, 32, 108>>, <<32, 59, 32>>}]
InitClinic ==
    /\ treatments = <<>>
    /\ patients = <<>>
    /\ appointments = <<>>
    /\ counters = Absent
    /\ invoices = <<>>
    /\ pc = [h \in Handlers |-> "start"]
    /\ loc = [h \in Handlers |-> NoLocals]
    /\ issued = <<>>
    /\ resp = NoResp
NextClinic ==
    \/ \E form \in PatientForms : add_patient(form)
    \/ \E patient_id \in PatientIds, form \in PatientForms :
          edit_patient(patient_id, form)
    \/ \E data \in [tooth : {<<56>>, <<56, 46, 49>>, <<>>},
                     condition : {"", "C", "X"}] :
          save_tooth_condition(1, data)
    \/ reset_tooth_condition(1)
SpecClinic == InitClinic /\ [][NextClinic]_vars

\* Appointments
NextAppointments ==
    \/ add_appointment
    \/ \E appointment_id \in 1..MaxRecs : mark_completed(appointment_id)
    \/ \E appointment_id \in 1..MaxRecs,
          new_status \in {"Pending", "Cancelled", "No-Show", "Rescheduled", ""} :
          update_appointment_status(appointment_id, new_status)
SpecAppointments == InitClinic /\ [][NextAppointments]_vars

-----------------------------------------------------------------------------
(* Properties *)

\* the validity predicate of the specification
IsValid(t) == ~(t.is_deleted = TRUE) /\ ~(t.status = "void")
ValidIdx == {i \in 1..Len(treatments) : IsValid(treatments[i])}

RECURSIVE SumOver(_, _)
SumOver(f, I) ==
    IF I = {} THEN 0
    ELSE LET i == CHOOSE x \in I : TRUE IN f[i] + SumOver(f, I \ {i})

FeeOf == [i \in 1..Len(treatments) |-> treatments[i].fee.v]
PaidOf == [i \in 1..Len(treatments) |-> treatments[i].paid.v]
BalanceOf == [i \in 1..Len(treatments) |->
                IF FeeOf[i] - PaidOf[i] > 0 THEN FeeOf[i] - PaidOf[i] ELSE 0]

\* C1: every view that shows totals counts exactly the documents that are
\* neither soft-deleted nor void: the dashboard, the finance report, the
\* finance dashboard and the finance reports (all-time and windowed totals,
\* outstanding) and the patient view show the sums over the valid documents
\* only.  (Stated as the claim; finance_report and view_patient break it.)
C1_OnlyValidRecordsCount ==
    /\ (resp.view = "dashboard" /\ resp.status = "ok") =>
          /\ resp.total_fee = SumOver(FeeOf, ValidIdx)
          /\ resp.total_paid = SumOver(PaidOf, ValidIdx)
    /\ (resp.view = "finance_report" /\ resp.status = "ok") =>
          /\ resp.total_fee = SumOver(FeeOf, ValidIdx)
          /\ resp.total_paid = SumOver(PaidOf, ValidIdx)
    /\ (resp.view \in {"finance_dashboard", "finance_reports"} /\ resp.status = "ok") =>
          /\ resp.billed = SumOver(FeeOf, ValidIdx)
          /\ resp.collected = SumOver(PaidOf, ValidIdx)
          /\ resp.outstanding = SumOver(BalanceOf, ValidIdx)
    /\ (resp.view = "view_patient" /\ resp.status = "ok") =>
          LET mine == {i \in ValidIdx :
                          treatments[i].patient_id = ObjectId(resp.patient_id)}
          IN  /\ resp.total_fee = SumOver(FeeOf, mine)
              /\ resp.total_paid = SumOver(PaidOf, mine)

\* C2: the all-time totals of the finance dashboard (finance_totals_all_time)
\* are the sum of fee and the sum of paid over exactly the documents that are
\* neither void nor deleted.
C2_AllTimeTotals ==
    (resp.view = "finance_dashboard" /\ resp.status = "ok" /\ resp.d_from = NotGiven) =>
        /\ resp.billed = SumOver(FeeOf, ValidIdx)
        /\ resp.collected = SumOver(PaidOf, ValidIdx)

\* a finance dashboard response over a ledger that holds a void or deleted
\* document with a fee next to a valid one
C2_Witness ==
    /\ resp.view = "finance_dashboard" /\ resp.status = "ok"
    /\ resp.d_from = NotGiven
    /\ resp.billed > 0
    /\ \E i \in 1..Len(treatments) : i \notin ValidIdx /\ FeeOf[i] > 0

\* C3: outstanding_all_time is the sum over the valid documents of
\* max(fee - paid, 0), clamped per document: leaving out a valid document
\* with paid > fee does not change the total.
C3_OutstandingClampedPerRecord ==
    (resp.view \in {"finance_dashboard", "finance_reports"} /\ resp.status = "ok") =>
        /\ resp.outstanding = SumOver(BalanceOf, ValidIdx)
        /\ \A i \in ValidIdx :
              PaidOf[i] > FeeOf[i] =>
                 resp.outstanding = SumOver(BalanceOf, ValidIdx \ {i})

\* an outstanding total over a valid overpaid document and a valid unpaid one
C3_Witness ==
    /\ resp.view = "finance_dashboard" /\ resp.status = "ok"
    /\ resp.outstanding > 0
    /\ \E i, j \in ValidIdx : PaidOf[i] > FeeOf[i] /\ FeeOf[j] > PaidOf[j]

\* C4: for the same ledger the dashboard, the finance report and the finance
\* dashboard show the same billed, collected and outstanding / pending
\* balance.  (Stated as the claim; the three views compute them differently.)
C4_ViewsAgree ==
    LET d == DashboardTotals(treatments)
        r == FinanceReportTotals(treatments)
        billed == finance_totals_all_time(treatments)[1]
        collected == finance_totals_all_time(treatments)[2]
        outstanding == outstanding_all_time(treatments)
    IN  (resp.view \in {"dashboard", "finance_report", "finance_dashboard"}
         /\ resp.status = "ok") =>
            /\ d.total_fee = r.total_fee /\ r.total_fee = billed
            /\ d.total_paid = r.total_paid /\ r.total_paid = collected
            /\ d.pending_balance = r.pending_balance
            /\ r.pending_balance = outstanding

\* C5: under every interleaving of invoice_pdf requests the numbers handed
\* out by next_invoice_number are 1, 2, ..., n in this order (distinct,
\* increasing, without gaps), the counter holds the last of them, and no two
\* stored invoice snapshots carry the same invoice_no.
C5_InvoiceNumbersDistinct ==
    /\ \A k \in 1..Len(issued) : issued[k] = k
    /\ (issued = <<>>) = (counters = Absent)
    /\ issued # <<>> => counters.seq = Len(issued)
    /\ \A i, j \in 1..Len(invoices) :
          i # j => invoices[i].invoice_no # invoices[j].invoice_no
    /\ \A i \in 1..Len(invoices) : invoices[i].invoice_no \in 1..Len(issued)

\* three requests were numbered while none of them had stored its snapshot,
\* and later two snapshots are stored
C5_Witness ==
    /\ Len(issued) >= 3
    /\ Len(invoices) >= 2
    /\ \E h \in Handlers : pc[h] = "numbered"
    /\ invoices[1].invoice_no > invoices[2].invoice_no

\* C6: top_outstanding_by_patient(limit) returns at most limit entries, in
\* non-increasing order of balance, each with balance > 0.  (Stated as the
\* claim; the pipeline has no stage that removes the balances of 0.)
C6_TopOutstandingPositive ==
    (resp.view = "top_outstanding" /\ resp.status = "ok") =>
        /\ Len(resp.top) <= resp.limit
        /\ \A i, j \in 1..Len(resp.top) :
              i < j => resp.top[i].balance >= resp.top[j].balance
        /\ \A i \in 1..Len(resp.top) : resp.top[i].balance > 0

\* the calendar day (ordinal) a stored date denotes, 0 - 100 when it denotes none
CalendarDay(d) ==
    IF _parse_date(d) = NoDate THEN 0 - 100 ELSE OrdinalOfDate(_parse_date(d))
InWindow(i, d_from, d_to) ==
    /\ CalendarDay(treatments[i].date) >= CalendarDay(d_from)
    /\ CalendarDay(treatments[i].date) <= CalendarDay(d_to)

\* C7: finance_totals_period(from, to) is the sum of fee and of paid over
\* exactly the valid documents whose date lies in [from, to], both bounds
\* included.  (Stated as the claim, with dates as calendar dates; the code
\* compares the stored text.)
C7_PeriodTotalsByCalendarDate ==
    (resp.view = "finance_dashboard" /\ resp.status = "ok" /\ resp.d_from # NotGiven) =>
        LET inside == {i \in ValidIdx : InWindow(i, resp.d_from, resp.d_to)}
        IN  /\ resp.billed = SumOver(FeeOf, inside)
            /\ resp.collected = SumOver(PaidOf, inside)

\* C7, on ledgers whose dates are all written YYYY-MM-DD: there the lexical
\* comparison and the calendar agree and the period totals are the sums
\* over the inclusive window.
C7_PeriodTotalsOnIsoLedgers ==
    (\A i \in 1..Len(treatments) : StrptimeYmd(treatments[i].date) # NoDate) =>
        C7_PeriodTotalsByCalendarDate

\* C8: when one of from / to or none is given, the finance summaries use the
\* window [today - 30 days, today].  (Stated as the claim.)
C8_DefaultWindowTrailing30Days ==
    (/\ resp.view \in {"finance_reports", "finance_dashboard"}
     /\ resp.status = "ok"
     /\ (resp.arg_from = NotGiven \/ resp.arg_to = NotGiven)) =>
        /\ resp.d_from = FormatYmd(MinusDays(Today, 30))
        /\ resp.d_to = FormatYmd(Today)

\* C9: a step of add_new_treatment that stores a document with fee >= paid
\* does not decrease outstanding_all_time, and one that stores a document
\* with paid > fee leaves it unchanged.
C9_AddNeverDecreasesOutstanding ==
    [][(resp'.view = "add_new_treatment" /\ Len(treatments') = Len(treatments) + 1) =>
         LET t == treatments'[Len(treatments')]
         IN  /\ t.fee.v >= t.paid.v =>
                   outstanding_all_time(treatments') >= outstanding_all_time(treatments)
             /\ t.paid.v > t.fee.v =>
                   outstanding_all_time(treatments') = outstanding_all_time(treatments)]_vars

\* add_new_treatment has stored an overpaid document in a ledger that has
\* an outstanding balance
C9_Witness ==
    /\ resp.view = "add_new_treatment" /\ resp.status = "ok"
    /\ Len(treatments) >= 2
    /\ PaidOf[Len(treatments)] > FeeOf[Len(treatments)]
    /\ outstanding_all_time(treatments) > 0

\* the display name of patient n and the sum of the clamped balances of
\* its valid documents, whichever form the reference has
DisplayName(n) == PatientDoc(n).first_name \o <<Space>> \o PatientDoc(n).last_name
RefersTo(i, n) == treatments[i].patient_id \in {ObjectId(n), HexStr(n)}
PatientBalance(n) == SumOver(BalanceOf, {i \in ValidIdx : RefersTo(i, n)})
HasBothForms(n) ==
    /\ \E i \in ValidIdx : treatments[i].patient_id = ObjectId(n)
    /\ \E i \in ValidIdx : treatments[i].patient_id = HexStr(n)

\* C10: when a patient has valid documents under the ObjectId and under its
\* string form, top_outstanding_by_patient lists the patient at most once,
\* with the sum of the clamped balances of all these documents, and lists it
\* whenever the limit did not cut the list; the dashboard counts each
\* patient with a positive summed balance once.
C10_BothReferenceFormsOneEntry ==
    /\ (resp.view = "top_outstanding" /\ resp.status = "ok") =>
          \A n \in PatientIds :
             HasBothForms(n) =>
                LET es == {k \in 1..Len(resp.top) : resp.top[k].name = DisplayName(n)}
                IN  /\ Cardinality(es) <= 1
                    /\ \A k \in es : resp.top[k].balance = PatientBalance(n)
                    /\ Len(resp.top) < resp.limit => es # {}
    /\ (resp.view = "dashboard" /\ resp.status = "ok") =>
          /\ resp.ar_patients = Cardinality({n \in PatientIds : PatientBalance(n) > 0})
          /\ resp.ar_total = SumOver([n \in PatientIds |-> PatientBalance(n)], PatientIds)

\* the list holds one entry that sums a document stored under the ObjectId
\* and one stored under its string form
C10_Witness ==
    /\ resp.view = "top_outstanding" /\ resp.status = "ok"
    /\ \E i, j \in ValidIdx :
          /\ treatments[i].patient_id = ObjectId(1) /\ BalanceOf[i] > 0
          /\ treatments[j].patient_id = HexStr(1) /\ BalanceOf[j] > 0
          /\ \E k \in 1..Len(resp.top) :
                /\ resp.top[k].name = DisplayName(1)
                /\ resp.top[k].balance = BalanceOf[i] + BalanceOf[j]

\* the display names of the stored patients whose name is not blank
ResolvedNames ==
    {Trim(patients[n].first_name \o <<Space>> \o patients[n].last_name) :
        n \in DOMAIN patients} \ {<<>>}

\* C11: top_outstanding_by_patient does not fail, and every entry of its
\* result that does not carry the name of a stored patient (the reference
\* resolves to no patient, or the patient's first and last name are blank)
\* carries the name "Unknown".  (Stated as the claim; the pipeline leaves
\* such a name empty and fails on a reference it cannot convert.)
C11_UnresolvedNamedUnknown ==
    resp.view = "top_outstanding" =>
        /\ resp.status = "ok"
        /\ \A k \in 1..Len(resp.top) :
              resp.top[k].name \notin ResolvedNames => resp.top[k].name = Unknown

\* the first day of the month of the calendar date a stored date denotes
MonthStart(d) == FormatYmd(<<_parse_date(d)[1], _parse_date(d)[2], 1>>)
\* the provider of a document, "Unknown" when it names none
ProviderOf(i) ==
    IF "dentist" \in DOMAIN treatments[i] THEN treatments[i].dentist ELSE Unknown
Keys(series) == {series[k]._id : k \in 1..Len(series)}

\* C12: over the valid documents whose date lies in the window, series_daily
\* returns one tuple per distinct day and series_monthly one tuple per
\* distinct month, both in ascending order of the key, and series_dentist
\* returns one tuple per provider in descending order of billed.  (Stated as
\* the claim, with dates as calendar dates; the window compares the stored
\* text, as C7 shows.)
C12_SeriesPerKeySorted ==
    (resp.view = "finance_dashboard" /\ resp.status = "ok" /\ resp.d_from # NotGiven) =>
        LET inside == {i \in ValidIdx : InWindow(i, resp.d_from, resp.d_to)}
            days == {CalendarDay(treatments[i].date) : i \in inside}
            months == {MonthStart(treatments[i].date) : i \in inside}
            providers == {ProviderOf(i) : i \in inside}
        IN  /\ Len(resp.daily) = Cardinality(days)
            /\ {CalendarDay(k) : k \in Keys(resp.daily)} = days
            /\ \A k, l \in 1..Len(resp.daily) :
                  k < l => CalendarDay(resp.daily[k]._id) < CalendarDay(resp.daily[l]._id)
            /\ Len(resp.monthly) = Cardinality(months)
            /\ Keys(resp.monthly) = months
            /\ \A k, l \in 1..Len(resp.monthly) :
                  k < l => LexLess(resp.monthly[k]._id, resp.monthly[l]._id)
            /\ Len(resp.dentist) = Cardinality(providers)
            /\ Keys(resp.dentist) = providers
            /\ \A k, l \in 1..Len(resp.dentist) :
                  k < l => resp.dentist[k].billed >= resp.dentist[l].billed

\* C12, on ledgers whose dates are all written YYYY-MM-DD: there the series
\* hold one tuple per day, month and provider of the window, in the order
\* the claim states.
C12_SeriesOnIsoLedgers ==
    (\A i \in 1..Len(treatments) : StrptimeYmd(treatments[i].date) # NoDate) =>
        C12_SeriesPerKeySorted

\* the stored amounts with every value that is no number counted as 0
CoercedFee == [i \in 1..Len(treatments) |->
                 IF IsNumber(treatments[i].fee) THEN treatments[i].fee.v ELSE 0]
CoercedPaid == [i \in 1..Len(treatments) |->
                  IF IsNumber(treatments[i].paid) THEN treatments[i].paid.v ELSE 0]
CoercedBalance == [i \in 1..Len(treatments) |->
                     Max2(CoercedFee[i] - CoercedPaid[i], 0)]

\* C13: when a stored fee or paid is no number, the aggregation functions
\* behind the finance dashboard (totals, outstanding_all_time, the series,
\* top_outstanding_by_patient) count it as 0 and return: the request does
\* not fail and shows the sums of the coerced amounts.  (Stated as the
\* claim, on ledgers whose patient references are all ObjectIds; $subtract
\* raises on a string.)
C13_NonNumericCountsAsZero ==
    (/\ resp.view \in {"finance_dashboard", "top_outstanding"}
     /\ \A i \in ValidIdx : treatments[i].patient_id.type = "objectId") =>
        /\ resp.status = "ok"
        /\ resp.view = "finance_dashboard" =>
              /\ resp.billed = SumOver(CoercedFee, ValidIdx)
              /\ resp.collected = SumOver(CoercedPaid, ValidIdx)
              /\ resp.outstanding = SumOver(CoercedBalance, ValidIdx)

\* C14: when no valid document matches (the ledger is empty, every document
\* is void or deleted, or no valid document lies in the window) the finance
\* dashboard does not fail, the totals are (0, 0) and the three series are
\* empty; when the ledger holds no valid document at all, outstanding is 0
\* and the list of top outstanding patients is empty.
C14_NothingMatchesGivesZero ==
    resp.view = "finance_dashboard" =>
        LET matched == IF resp.status = "ok" /\ resp.d_from # NotGiven
                       THEN {i \in ValidIdx : InWindow(i, resp.d_from, resp.d_to)}
                       ELSE ValidIdx
        IN  /\ resp.status = "ok"
            /\ matched = {} =>
                  /\ resp.billed = 0 /\ resp.collected = 0
                  /\ resp.daily = <<>> /\ resp.monthly = <<>> /\ resp.dentist = <<>>
            /\ ValidIdx = {} => resp.outstanding = 0 /\ resp.top = <<>>

\* a windowed finance dashboard over a ledger that holds documents dated in
\* the window, all of them void
C14_Witness ==
    /\ resp.view = "finance_dashboard" /\ resp.status = "ok"
    /\ resp.d_from = Jan31 /\ resp.d_to = Mar02
    /\ Len(treatments) >= 2
    /\ ValidIdx = {}
    /\ \A i \in 1..Len(treatments) : InWindow(i, resp.d_from, resp.d_to)
    /\ resp.billed = 0 /\ resp.daily = <<>> /\ resp.top = <<>>

C16_BalancesNeverNegative ==
    /\ (resp.view = "view_patient" /\ resp.status = "ok") => resp.remaining >= 0
    /\ (resp.view \in {"finance_report", "dashboard"} /\ resp.status = "ok") =>
          resp.pending_balance >= 0
    /\ \A h \in Handlers : pc[h] \in {"fetched", "numbered"} => loc[h].balance >= 0
    /\ \A k \in 1..Len(invoices) : invoices[k].balance >= 0

\* C17: after any sequence of add_treatment, add_new_treatment,
\* update_treatment_from_report and update_treatment_inline requests every
\* stored document has a numeric fee >= 0 and a numeric paid >= 0: a request
\* with a malformed or negative amount is rejected.  (Stated as the claim;
\* float() accepts a negative number and no handler checks the sign.)
C17_StoredAmountsNonNegative ==
    \A i \in 1..Len(treatments) :
        /\ IsNumber(treatments[i].fee) /\ treatments[i].fee.v >= 0
        /\ IsNumber(treatments[i].paid) /\ treatments[i].paid.v >= 0

\* C18: a step that reduces the stored treatment documents is made by an
\* administrator: no request of another user removes a document.  (Stated
\* as the claim; remove_treatment asks for a login only and deletes.)
C18_OnlyAdminRemoves ==
    [][Len(treatments') < Len(treatments) => resp'.role = "admin"]_vars

\* C19: delete_patient removes the patient document and nothing else: the
\* step leaves the treatment documents and the invoice snapshots as they
\* were, and afterwards the all-time billed, collected and outstanding
\* still count every valid document, those of deleted patients included.
C19_DeletePatientKeepsRecords ==
    /\ [][resp'.view = "delete_patient" =>
             treatments' = treatments /\ invoices' = invoices]_vars
    /\ []((resp.view = "finance_dashboard" /\ resp.status = "ok"
              /\ resp.d_from = NotGiven) =>
             /\ resp.billed = SumOver(FeeOf, ValidIdx)
             /\ resp.collected = SumOver(PaidOf, ValidIdx)
             /\ resp.outstanding = SumOver(BalanceOf, ValidIdx))

\* patient 2 was deleted while the ledger holds a valid unpaid document of
\* that patient and an invoice snapshot, and the all-time totals count it
C19_Witness ==
    /\ resp.view = "finance_dashboard" /\ resp.status = "ok"
    /\ resp.d_from = NotGiven
    /\ 2 \notin DOMAIN patients
    /\ invoices # <<>>
    /\ \E i \in ValidIdx :
          treatments[i].patient_id = ObjectId(2) /\ BalanceOf[i] > 0
    /\ resp.billed = SumOver(FeeOf, ValidIdx) /\ resp.outstanding > 0

\* C20: a stored invoice snapshot never changes: no step (a treatment edit
\* or removal, the deletion of the patient, a further invoice generation)
\* removes a snapshot or alters the invoice_no, the copy of the treatment
\* documents or the totals of a snapshot that is stored.
C20_SnapshotsImmutable ==
    [][/\ Len(invoices') >= Len(invoices)
       /\ \A k \in 1..Len(invoices) : invoices'[k] = invoices[k]]_vars

\* the first snapshot holds a copy of a document that was edited or removed
\* afterwards, the patient is deleted, and a second snapshot with another
\* copy was stored after the first
C20_Witness ==
    /\ Len(invoices) >= 2
    /\ invoices[1].treatments # <<>>
    /\ \A i \in 1..Len(treatments) : treatments[i] # invoices[1].treatments[1]
    /\ invoices[2].treatments # invoices[1].treatments
    /\ invoices[2].invoice_no # invoices[1].invoice_no
    /\ 1 \notin DOMAIN patients


\* C21: after any sequence of add_patient and edit_patient requests, whatever
\* branch value is submitted (absent, blank, unknown or valid), the branch of
\* every stored patient is "Baguio" or "Tarlac".
C21_BranchAlwaysAllowed ==
    \A n \in DOMAIN patients :
        patients[n].branch \in {<<66, 97, 103, 117, 105, 111>>,
                                <<84, 97, 114, 108, 97, 99>>}
\* an edit that submitted "Cebu" was applied and the patient kept "Tarlac"
C21_Witness ==
    /\ resp.view = "edit_patient" /\ resp.status = "ok"
    /\ resp.form.branch = <<<<67, 101, 98, 117>>>>
    /\ patients[resp.patient_id].branch = <<84, 97, 114, 108, 97, 99>>

\* The pieces of a text between separators "," (44) and ";" (59), as pairs
\* <<first, last>> of positions (last = first - 1 for an empty piece).
PiecesOf(raw) ==
    {pr \in (1..(Len(raw) + 1)) \X (0..Len(raw)) :
        /\ pr[1] <= pr[2] + 1
        /\ pr[1] = 1 \/ raw[pr[1] - 1] \in {44, 59}
        /\ pr[2] = Len(raw) \/ raw[pr[2] + 1] \in {44, 59}
        /\ \A k \in pr[1]..pr[2] : raw[k] \notin {44, 59}}
\* the position where the item first occurs in the text
FirstAt(raw, item) ==
    CHOOSE i \in 1..(Len(raw) + 1) :
        /\ \E pr \in PiecesOf(raw) :
               pr[1] = i /\ Trim(SubSeq(raw, pr[1], pr[2])) = item
        /\ \A pr \in PiecesOf(raw) :
               Trim(SubSeq(raw, pr[1], pr[2])) = item => pr[1] >= i
\* list is the normal form of the text: its items are the trimmed non-blank
\* pieces, each once, in the order of their first occurrence
IsNormalForm(list, raw) ==
    /\ {list[k] : k \in 1..Len(list)} =
          {Trim(SubSeq(raw, pr[1], pr[2])) : pr \in PiecesOf(raw)} \ {<<>>}
    /\ \A k, m \in 1..Len(list) :
          k < m => list[k] # list[m] /\ FirstAt(raw, list[k]) < FirstAt(raw, list[m])

\* C22: the patient written by add_patient or edit_patient has the allergy
\* flag of the form and, when the flag is set, the normal form of the
\* submitted text as its allergy list ("p, l; l" gives [p, l]); a stored
\* allergy list is non-empty only if the flag is true.
C22_AllergiesNormalized ==
    /\ \A n \in DOMAIN patients :
          patients[n].allergies # <<>> => patients[n].has_allergy
    /\ (resp.view \in {"add_patient", "edit_patient"} /\ resp.status = "ok") =>
          LET p == patients[resp.patient_id]
          IN  /\ p.has_allergy = (resp.form.has_allergy = "on")
              /\ p.has_allergy => IsNormalForm(p.allergies, resp.form.allergies)
              /\ (p.has_allergy /\ resp.form.allergies = <<112, 44, 32, 108, 59, 32, 108>>)
                    => p.allergies = <<<<112>>, <<108>>>>
\* "p, l; l" was submitted with the flag and [p, l] is stored; another
\* patient, written without the flag, has an empty list
C22_Witness ==
    /\ resp.view = "add_patient" /\ resp.status = "ok"
    /\ resp.form.has_allergy = "on"
    /\ resp.form.allergies = <<112, 44, 32, 108, 59, 32, 108>>
    /\ patients[resp.patient_id].allergies = <<<<112>>, <<108>>>>
    /\ \E n \in DOMAIN patients :
          ~patients[n].has_allergy /\ patients[n].allergies = <<>>

\* C23: after any sequence of add_appointment, mark_completed and
\* update_appointment_status requests, the status of every stored
\* appointment is one of pending, completed, cancelled, no-show (the store
\* holds them capitalised).
C23_AppointmentStatusEnumerated ==
    \A i \in DOMAIN appointments :
        appointments[i].status \in {"Pending", "Completed", "Cancelled", "No-Show"}

\* C24: after any sequence of save_tooth_condition and reset_tooth_condition
\* requests, every value in a patient's tooth-condition map is one of the
\* enumerated condition codes.
C24_ToothValuesAreCodes ==
    \A n \in DOMAIN patients :
        \A e \in patients[n].tooth_conditions :
            /\ e.kind = "code"
            /\ e.code \in {"C", "M", "F", "Un", "PD", "Fc", "Ab", "P", "PJC", "CLA", "RRF"}
\* C24, the rest of the claim: a save with a code outside the set answers
\* with an error and leaves the map unchanged; a save with an empty
\* condition for an undotted tooth id removes that tooth's entry and no
\* other; no code outside the set is ever stored.
C24_RejectsAndClears ==
    /\ [][resp'.view = "save_tooth_condition" =>
            /\ (resp'.data.condition = "X") =>
                  /\ resp'.status \in {"invalid", "missing_tooth"}
                  /\ patients' = patients
            /\ (resp'.data = [tooth |-> <<56>>, condition |-> ""]
                   /\ resp'.patient_id \in DOMAIN patients) =>
                  patients' = [patients EXCEPT ![resp'.patient_id].tooth_conditions =
                                  {e \in @ : e.tooth # <<56>>}]]_vars
    /\ [](\A n \in DOMAIN patients :
            \A e \in patients[n].tooth_conditions :
                /\ e.kind = "code" => e.code \in VALID_CONDS
                /\ \A x \in e.sub : x.code \in VALID_CONDS)

\* C25: every applied edit of a treatment (update_treatment_inline or
\* update_treatment_from_report, in any interleaving of requests) is one
\* update of one document: afterwards the stored fee and paid of that
\* treatment are both the values of that request, never one of them from an
\* earlier request, and no other field and no other record has changed.
C25_EditsAreLastWriterWins ==
    [][(/\ resp'.view \in {"update_treatment_inline", "update_treatment_from_report"}
        /\ resp'.status = "ok") =>
          /\ Len(treatments') = Len(treatments)
          /\ \A i \in 1..Len(treatments) :
                IF treatments[i]._id = resp'.treatment_id
                THEN /\ treatments'[i].fee = [type |-> "double", v |-> resp'.form.fee.v]
                     /\ treatments'[i].paid = [type |-> "double", v |-> resp'.form.paid.v]
                     /\ \A f \in DOMAIN treatments[i] \ {"fee", "paid"} :
                           treatments'[i][f] = treatments[i][f]
                ELSE treatments'[i] = treatments[i]]_vars
\* an edit with the pair (-1, -1) was applied to a stored treatment, next to
\* another record
C25_Witness ==
    /\ resp.view = "update_treatment_inline" /\ resp.status = "ok"
    /\ resp.form.fee.v = 0 - 1 /\ resp.form.paid.v = 0 - 1
    /\ Len(treatments) > 1
    /\ \E i \in 1..Len(treatments) :
          /\ treatments[i]._id = resp.treatment_id
          /\ treatments[i].fee.v = 0 - 1 /\ treatments[i].paid.v = 0 - 1

\* C26: a request of a logged-in user that names a treatment which does not
\* exist (remove_treatment, update_treatment_inline,
\* update_treatment_from_report) ends in the not-found outcome, neither in
\* a failure nor in a success, and leaves the store unchanged.
C26_MissingTreatmentIsNotFound ==
    [][(/\ resp'.view \in {"remove_treatment", "update_treatment_inline",
                           "update_treatment_from_report"}
        /\ resp'.role # "none"
        /\ \A i \in 1..Len(treatments) : treatments[i]._id # resp'.treatment_id) =>
          /\ resp'.status = "not_found"
          /\ treatments' = treatments]_vars

\* C29: add_treatment stores the rows of the form one at a time: the rows
\* before the first row whose amounts do not parse are stored, in order, as
\* records of the given patient with the row's date and amounts, nothing
\* else is stored or changed, and the request succeeds exactly when every
\* row parses (one record per submitted date).
C29_RowsStoredUpToFirstFailure ==
    [][(resp'.view = "add_treatment" /\ resp'.role # "none") =>
          LET rows == resp'.rows
              bad == {k \in 1..Len(rows) :
                         rows[k].fee.text # "number" \/ rows[k].paid.text # "number"}
              first == IF bad = {} THEN Len(rows) + 1
                       ELSE CHOOSE k \in bad : \A j \in bad : k <= j
          IN  /\ Len(treatments') = Len(treatments) + first - 1
              /\ \A i \in 1..Len(treatments) : treatments'[i] = treatments[i]
              /\ \A k \in 1..(first - 1) :
                    LET t == treatments'[Len(treatments) + k]
                    IN  /\ t.patient_id = [type |-> "objectId", v |-> resp'.patient_id]
                        /\ t.date = rows[k].date
                        /\ t.fee = [type |-> "double", v |-> rows[k].fee.v]
                        /\ t.paid = [type |-> "double", v |-> rows[k].paid.v]
              /\ (resp'.status = "ok") <=> (bad = {})
              /\ (resp'.status = "error") <=> (bad # {})]_vars
\* a form of two rows whose second row does not parse: the request failed
\* and the first row is the last stored record
C29_Witness ==
    /\ resp.view = "add_treatment" /\ resp.status = "error"
    /\ Len(resp.rows) = 2
    /\ resp.rows[1].fee.text = "number" /\ resp.rows[2].fee.text # "number"
    /\ treatments # <<>>
    /\ treatments[Len(treatments)].fee.v = resp.rows[1].fee.v

\* C27: for every ledger and every window, the billed amounts of the daily
\* series add up to the billed total of finance_totals_period for the same
\* window, and so do those of the monthly series and of the dentist series;
\* likewise for the collected amounts.
C27_SeriesSumToTotals ==
    (resp.view = "finance_dashboard" /\ resp.status = "ok" /\ resp.d_from # NotGiven) =>
        /\ SumSeq([i \in 1..Len(resp.daily) |-> resp.daily[i].billed]) = resp.billed
        /\ SumSeq([i \in 1..Len(resp.monthly) |-> resp.monthly[i].billed]) = resp.billed
        /\ SumSeq([i \in 1..Len(resp.dentist) |-> resp.dentist[i].billed]) = resp.billed
        /\ SumSeq([i \in 1..Len(resp.daily) |-> resp.daily[i].collected]) = resp.collected
        /\ SumSeq([i \in 1..Len(resp.monthly) |-> resp.monthly[i].collected]) = resp.collected
        /\ SumSeq([i \in 1..Len(resp.dentist) |-> resp.dentist[i].collected]) = resp.collected
\* a window whose documents fall into two days, two months and two dentist
\* groups
C27_Witness ==
    /\ resp.view = "finance_dashboard" /\ resp.status = "ok" /\ resp.d_from # NotGiven
    /\ Len(resp.daily) = 2 /\ Len(resp.monthly) = 2 /\ Len(resp.dentist) = 2
    /\ resp.billed = 3

\* C28: for every ledger whose patient references all resolve to ids, the
\* dashboard's ar_total (balances grouped per patient, patients with a
\* balance above 0 only) equals outstanding_all_time of the same ledger, and
\* the dashboard's pending_balance (total fee minus total paid, clamped
\* after the summation) is never greater than it.
C28_DashboardAgreesWithOutstanding ==
    (resp.view = "dashboard" /\ resp.status = "ok") =>
        /\ resp.ar_total = outstanding_all_time(treatments)
        /\ resp.pending_balance <= outstanding_all_time(treatments)
\* one patient owes 2, another has overpaid by 1: pending_balance is 1,
\* ar_total is 2
C28_Witness ==
    /\ resp.view = "dashboard" /\ resp.status = "ok"
    /\ resp.ar_patients = 1
    /\ resp.ar_total = 2 /\ resp.pending_balance = 1
    /\ \E i, j \in 1..Len(treatments) : treatments[i].patient_id # treatments[j].patient_id

\* The age of the ledger data in a snapshot of patient 1: the patient's
\* first treatment is stored with fee 2, edited to fee 1 and then removed,
\* and never comes back, so the copy of it in a snapshot tells when the
\* ledger was read.
ReadAge(inv) ==
    IF \A k \in 1..Len(inv.treatments) : inv.treatments[k]._id # 1 THEN 2
    ELSE IF \E k \in 1..Len(inv.treatments) :
              inv.treatments[k]._id = 1 /\ inv.treatments[k].fee.v = 1 THEN 1
    ELSE 0

\* C30: under every interleaving of invoice_pdf requests and treatment
\* edits for one patient, a snapshot with a greater invoice_no never holds
\* ledger data read earlier than the data of a snapshot with a smaller
\* invoice_no.
C30_NumbersOrderSnapshotsByFreshness ==
    \A i, j \in 1..Len(invoices) :
        invoices[i].invoice_no < invoices[j].invoice_no =>
            ReadAge(invoices[i]) <= ReadAge(invoices[j])
\* C30, the rest of the claim: the totals of every snapshot are computed
\* from exactly the records copied into it.
C30_TotalsFromCopiedRecords ==
    \A i \in 1..Len(invoices) :
        LET copied == invoices[i].treatments
        IN  /\ invoices[i].total_fee =
                  SumSeq([k \in 1..Len(copied) |->
                             IF copied[k].fee.type = "double" THEN copied[k].fee.v ELSE 0])
            /\ invoices[i].total_paid =
                  SumSeq([k \in 1..Len(copied) |->
                             IF copied[k].paid.type = "double" THEN copied[k].paid.v ELSE 0])
            /\ invoices[i].balance = invoices[i].total_fee - invoices[i].total_paid
=============================================================================
